---- MODULE Spec2Model ----
(***************************************************************************)
(* A model of the RTU schedule client: the Live Data Client (RTUApiClient, *)
(* src/src/api-client.ts) and the Discovery Service (DiscoveryService,     *)
(* src/src/schedule/discovery.ts), with their time-expiring caches.        *)
(*                                                                         *)
(* JavaScript values are written as the strings of their literals          *)
(* ("undefined", "null", "true", "false", "[]", "[e1]", "{}", ...), so that *)
(* truthiness, Array.isArray and Boolean() are computed and not assumed.   *)
(* A JavaScript number-or-undefined parameter is a record [def, n].        *)
(***************************************************************************)
EXTENDS Integers, Sequences, FiniteSets, Bags, TLC

VARIABLES
  now,            \* Date.now(), in clock ticks
  cacheTimeout,   \* RTUApiClient.cacheTimeout
  cache,          \* RTUApiClient.cache : key -> [data, timestamp]
  pending,        \* Live Data Client calls suspended at `await this.client.post`
  posts,          \* number of upstream POST requests issued so far
  last,           \* what the most recent Live Data Client step did
  today,          \* the calendar date of `new Date()`
  discTimeout,    \* DiscoveryService.cacheTimeout
  periodsCache,   \* DiscoveryService.periodsCache
  programsCache,  \* DiscoveryService.programsCache : periodId -> entry
  fetching,       \* discovery calls suspended at `await this.fetchMainPage`
  gets,           \* number of upstream GET requests issued so far
  uncalled,       \* the discovery slots not called since the last clearCache()
  dlast,          \* what the most recent Discovery Service step did
  semester,       \* Date Range Resolver: the raw semester given
  metadata,       \* Date Range Resolver: the semester metadata given
  resolved,       \* Date Range Resolver: the StudyPeriod it produced
  callA,          \* cache keys: an operation and its parameters
  callB,          \* cache keys: another operation and its parameters
  keysAB          \* cache keys: the cacheKey of callA and of callB

apiVars == <<cacheTimeout, cache, pending, posts, last>>

discVars ==
  <<discTimeout, periodsCache, programsCache, fetching, gets, uncalled, dlast>>

dateVars == <<semester, metadata, resolved>>

keyVars == <<callA, callB, keysAB>>

vars == <<now, today, apiVars, discVars, dateVars, keyVars>>

\* ---------------------------------------------------------------- bounds
MaxTime == 3
MaxTTL == 2
MaxPosts == 2
MaxPostsWide == 1
MaxGets == 2

\* the cacheTimeout values a client is constructed with
TTLs == {0, MaxTTL}

\* ------------------------------------------------------- JavaScript values
U == [def |-> FALSE, n |-> 0]
N(n) == [def |-> TRUE, n |-> n]

\* !x for a number-or-undefined x
Not(x) == ~x.def \/ x.n = 0

\* a truthiness test under which an empty array is falsy
TruthyNonEmpty(v) == v \notin {"undefined", "null", "false", "0", "''", "[]"}

Truthy(v) == v \notin {"undefined", "null", "false", "0", "''"}

IsArray(v) == v \in {"[]", "[e1]", "[e2]"}

Boolean(v) == IF Truthy(v) THEN "true" ELSE "false"

\* x.toString() inside a template literal
Str(x) == IF x.def THEN ToString(x.n) ELSE "undefined"

\* ------------------------------------------------------ calendar dates
\* a Date, to the day; NoDate is an absent (undefined) date
Day(y, m, d) == [y |-> y, m |-> m, d |-> d]

NoDate == Day(0, 0, 0)

\* new Date(year, monthIndex, day): monthIndex counts from 0, and a year
\* from 0 to 99 means 1900 + year
NewDate(year, monthIndex, day) ==
  Day(IF year \in 0..99 THEN 1900 + year ELSE year, monthIndex + 1, day)

\* new Date(date): a copy of a Date
CopyDate(date) == Day(date.y, date.m, date.d)

Today0 == Day(2026, 3, 15)

\* ------------------------------------------------ raw parser records
\* A semester label, as the words the label normalizer looks at: the period
\* code, the academic-year token (a string, as its characters) and the
\* season word.
Chars2024 == <<"2", "0", "2", "4", "/", "2", "0", "2", "5">>

CharsReversed == <<"2", "0", "2", "5", "/", "2", "0", "2", "4">>

CharsShort == <<"2", "4", "/", "2", "5">>

\* four digits each, the years before 100
CharsEarly == <<"0", "0", "2", "4", "/", "0", "0", "2", "5">>

YearTokens == {Chars2024, CharsReversed, CharsShort, CharsEarly, <<>>}

SeasonWords == {"rudens", "pavasara", "vasaras", "semestris"}

Labels ==
  {[code |-> "24/25-R", years |-> y, word |-> w] : y \in YearTokens, w \in SeasonWords}

\* the label normalizer (utils.js)
parsePeriodCode(name) == name.code

Digits == {"0", "1", "2", "3", "4", "5", "6", "7", "8", "9"}

\* academicYear.match(/^(\d{4})\/(\d{4})$/)
YearMatch(str) ==
  /\ Len(str) = 9
  /\ str[5] = "/"
  /\ \A i \in {1, 2, 3, 4, 6, 7, 8, 9} : str[i] \in Digits

parseAcademicYear(name) == IF YearMatch(name.years) THEN name.years ELSE <<>>

parseSeason(name) ==
  CASE name.word = "rudens" -> "autumn"
    [] name.word = "pavasara" -> "spring"
    [] name.word = "vasaras" -> "summer"
    [] OTHER -> "unknown"

DigitVal(c) ==
  CASE c = "0" -> 0 [] c = "1" -> 1 [] c = "2" -> 2 [] c = "3" -> 3
    [] c = "4" -> 4 [] c = "5" -> 5 [] c = "6" -> 6 [] c = "7" -> 7
    [] c = "8" -> 8 [] c = "9" -> 9

\* parseInt(group, 10) of the four digits of str from position i
ParseInt4(str, i) ==
  1000 * DigitVal(str[i]) + 100 * DigitVal(str[i + 1])
    + 10 * DigitVal(str[i + 2]) + DigitVal(str[i + 3])

\* ------------------------------------------------- Date Range Resolver
\* the else branch of transformToStudyPeriod: the default date range
\* calculated from the season and the academic year, as <<start, end>>
calculatedDefaults(season, academicYear) ==
  LET yearMatch == YearMatch(academicYear)
      startYear == IF yearMatch THEN ParseInt4(academicYear, 1) ELSE today.y
      endYear == IF yearMatch THEN ParseInt4(academicYear, 6) ELSE startYear + 1
  IN CASE season = "autumn" -> <<NewDate(startYear, 8, 1), NewDate(endYear, 0, 31)>>
       [] season = "spring" -> <<NewDate(endYear, 1, 1), NewDate(endYear, 5, 30)>>
       [] season = "summer" -> <<NewDate(endYear, 6, 1), NewDate(endYear, 7, 31)>>
       [] OTHER -> <<today, today>>

\* transformToStudyPeriod that takes the metadata dates for every semester
transformIgnoringSelected(sem, meta) ==
  LET usesMeta == meta.startDate # NoDate /\ meta.endDate # NoDate
  IN [id |-> sem.id, name |-> sem.name, code |-> parsePeriodCode(sem.name),
      academicYear |-> parseAcademicYear(sem.name), season |-> parseSeason(sem.name),
      startDate |-> IF usesMeta THEN CopyDate(meta.startDate) ELSE today,
      endDate |-> IF usesMeta THEN CopyDate(meta.endDate) ELSE today,
      isSelected |-> sem.isSelected]

transformToStudyPeriod(sem, meta) ==
  LET code == parsePeriodCode(sem.name)
      academicYear == parseAcademicYear(sem.name)
      season == parseSeason(sem.name)
      usesMeta == sem.isSelected /\ meta.startDate # NoDate /\ meta.endDate # NoDate
      dates == IF usesMeta
                 THEN <<CopyDate(meta.startDate), CopyDate(meta.endDate)>>
                 ELSE calculatedDefaults(season, academicYear)
  IN [id |-> sem.id, name |-> sem.name, code |-> code,
      academicYear |-> academicYear, season |-> season,
      startDate |-> dates[1], endDate |-> dates[2],
      isSelected |-> sem.isSelected]

\* the inputs the resolver is explored with
MetaDates == {NoDate, Day(2024, 9, 2), Day(2025, 1, 31), Day(2024, 9, 1)}

Metadatas == {[startDate |-> a, endDate |-> b] : a \in MetaDates, b \in MetaDates}

Semesters == {[id |-> 1, name |-> n, isSelected |-> b] : n \in Labels, b \in BOOLEAN}

Days == {Today0, Day(2024, 9, 1)}

NoSemester ==
  [id |-> 0, name |-> [code |-> "", years |-> <<>>, word |-> ""], isSelected |-> FALSE]

NoMetadata == [startDate |-> NoDate, endDate |-> NoDate]

NoPeriod ==
  [id |-> 0, name |-> NoSemester.name, code |-> "", academicYear |-> <<>>,
   season |-> "", startDate |-> NoDate, endDate |-> NoDate, isSelected |-> FALSE]

IdleResolver ==
  /\ semester = NoSemester
  /\ metadata = NoMetadata
  /\ resolved = NoPeriod

\* --------------------------------------------- Discovery Service: state
\* A cache entry {data, timestamp}, or none.  acrossClear is not a field of
\* the code's entry: it records that the data came from a request that was
\* issued before a clearCache() and answered after it.
NoEntry == [set |-> FALSE, data |-> <<>>, timestamp |-> 0, acrossClear |-> FALSE]

Entry(data) ==
  [set |-> TRUE, data |-> data, timestamp |-> now, acrossClear |-> FALSE]

NoPrograms == [i \in {} |-> NoEntry]

PeriodIds == {1, 2}

\* the cache slots: 0 is the periods slot, periodId the programs of a period
Slots == {0} \cup PeriodIds

\* a StudyPeriod | null value
Null == [null |-> TRUE, period |-> NoPeriod]

Some(period) == [null |-> FALSE, period |-> period]

\* What the most recent Discovery Service step did.  act: the step; kind,
\* periodId: the call; had, elapsed: the slot's entry at the lookup and its
\* age; returned, ret: the list the call returned; err, cause: the
\* DiscoveryError it threw and the cause attached; raised: what the
\* transport or the parser threw; current, one: the call was
\* discoverCurrentPeriod, and the period or null it returned; inflight: the
\* other calls for the same slot suspended at the step; next: the call is
\* the first for its slot since a clearCache(); acrossClear: the list served
\* came from a request issued before a clearCache(); over: the step wrote
\* over an entry; gets0: gets before the step; evicted: the call's lookup
\* emptied its slot; alone: no other discovery call was suspended or made
\* and no clearCache ran since the call was made; untouched:
\* both caches are as they were just before the call was made; ownSlotOnly:
\* they are so but for the call's own slot, which is empty; wrote: the step
\* wrote an entry.
NoDObs ==
  [act |-> "init", kind |-> "", periodId |-> 0, had |-> FALSE, elapsed |-> 0,
   returned |-> FALSE, ret |-> <<>>, err |-> "", cause |-> "", raised |-> "",
   current |-> FALSE, one |-> Null, inflight |-> 0, next |-> FALSE,
   acrossClear |-> FALSE, over |-> FALSE, gets0 |-> 0,
   evicted |-> FALSE, alone |-> FALSE, untouched |-> TRUE, ownSlotOnly |-> TRUE,
   wrote |-> FALSE]

\* a service just constructed and never called
IdleService ==
  /\ discTimeout = MaxTTL
  /\ periodsCache = NoEntry
  /\ programsCache = NoPrograms
  /\ fetching = EmptyBag
  /\ gets = 0
  /\ uncalled = {}
  /\ dlast = NoDObs

\* ------------------------------------------------- Live Data Client: input
Ops == {"events", "subjects", "published", "groups", "courses"}

ListOps == Ops \ {"published"}

\* what a caller may pass for a parameter: nothing, a negative number, zero,
\* or a number in range (for year and month: the ends of the range and the
\* numbers next to them)
IdVals == {U, N(-1), N(0), N(1)}

YearVals == {U, N(0), N(1999), N(2000), N(3000), N(3001)}

MonthVals == {U, N(0), N(1), N(12), N(13)}

NoParams ==
  [semesterProgramId |-> U, year |-> U, month |-> U,
   courseId |-> U, semesterId |-> U, programId |-> U]

EventsBase == [NoParams EXCEPT !.semesterProgramId = N(1), !.year = N(2000), !.month = N(1)]

GroupsBase == [NoParams EXCEPT !.courseId = N(1), !.semesterId = N(1), !.programId = N(1)]

CoursesBase == [NoParams EXCEPT !.semesterId = N(1), !.programId = N(1)]

\* the parameter objects a caller may pass to operation op: a valid object
\* with one parameter varied, two with several out of range, and the object
\* with every parameter missing
WideParamsOf(op) ==
  CASE op = "events" ->
         {[EventsBase EXCEPT !.semesterProgramId = i] : i \in IdVals}
           \cup {[EventsBase EXCEPT !.year = y] : y \in YearVals}
           \cup {[EventsBase EXCEPT !.month = m] : m \in MonthVals}
           \cup {[EventsBase EXCEPT !.year = N(1999), !.month = N(13)], NoParams}
    [] op \in {"subjects", "published"} ->
         {[NoParams EXCEPT !.semesterProgramId = i] : i \in IdVals}
    [] op = "groups" ->
         {[GroupsBase EXCEPT !.courseId = i] : i \in IdVals}
           \cup {[GroupsBase EXCEPT !.semesterId = i] : i \in IdVals}
           \cup {[GroupsBase EXCEPT !.programId = i] : i \in IdVals}
           \cup {[GroupsBase EXCEPT !.semesterId = N(0), !.programId = N(-1)], NoParams}
    [] op = "courses" ->
         {[CoursesBase EXCEPT !.semesterId = i] : i \in IdVals}
           \cup {[CoursesBase EXCEPT !.programId = i] : i \in IdVals}
           \cup {NoParams}

\* the parameter objects the cache is explored with: one or two valid
\* objects per operation, and one that validation rejects
ParamsOf(op) ==
  CASE op = "events" ->
         {EventsBase, [EventsBase EXCEPT !.year = N(3000), !.month = N(12)]}
    [] op = "subjects" ->
         {[NoParams EXCEPT !.semesterProgramId = i] : i \in {N(0), N(1)}}
    [] op = "published" -> {[NoParams EXCEPT !.semesterProgramId = N(1)]}
    [] op = "groups" -> {GroupsBase}
    [] op = "courses" -> {CoursesBase}

\* what the transport may answer: a thrown AxiosError, another thrown error,
\* or a response whose body (response.data) is one of these values
Bodies == {"null", "undefined", "[]", "[e1]", "{}", "false"}

Outcomes ==
  {[kind |-> "axios", data |-> "undefined"], [kind |-> "other", data |-> "undefined"]}
    \cup {[kind |-> "body", data |-> b] : b \in Bodies}

\* ------------------------------------------- Live Data Client: validation
\* validateSemesterProgramEventsParams without the upper limit of month
validateEventsMonthFromOne(p) ==
  IF Not(p.semesterProgramId) \/ p.semesterProgramId.n <= 0
    THEN "Invalid semesterProgramId"
  ELSE IF Not(p.year) \/ p.year.n < 2000 \/ p.year.n > 3000
    THEN "Invalid year"
  ELSE IF Not(p.month) \/ p.month.n < 1
    THEN "Invalid month"
  ELSE ""

\* each returns the message of the Error it throws, "" when it returns normally
validateSemesterProgramEventsParams(p) ==
  IF Not(p.semesterProgramId) \/ p.semesterProgramId.n <= 0
    THEN "Invalid semesterProgramId"
  ELSE IF Not(p.year) \/ p.year.n < 2000 \/ p.year.n > 3000
    THEN "Invalid year"
  ELSE IF Not(p.month) \/ p.month.n < 1 \/ p.month.n > 12
    THEN "Invalid month"
  ELSE ""

validateSemesterProgramId(p) ==
  IF Not(p.semesterProgramId) \/ p.semesterProgramId.n <= 0
    THEN "Invalid semesterProgramId"
  ELSE ""

validateGroupsByCourseParams(p) ==
  IF Not(p.courseId) \/ p.courseId.n <= 0 THEN "Invalid courseId"
  ELSE IF Not(p.semesterId) \/ p.semesterId.n <= 0 THEN "Invalid semesterId"
  ELSE IF Not(p.programId) \/ p.programId.n <= 0 THEN "Invalid programId"
  ELSE ""

validateCoursesByProgramParams(p) ==
  IF Not(p.semesterId) \/ p.semesterId.n <= 0 THEN "Invalid semesterId"
  ELSE IF Not(p.programId) \/ p.programId.n <= 0 THEN "Invalid programId"
  ELSE ""

Validate(op, p) ==
  CASE op = "events" -> validateSemesterProgramEventsParams(p)
    [] op \in {"subjects", "published"} -> validateSemesterProgramId(p)
    [] op = "groups" -> validateGroupsByCourseParams(p)
    [] op = "courses" -> validateCoursesByProgramParams(p)

\* ------------------------------------------------ Live Data Client: cache
KeyOfParametersAlone(op, p) ==
  CASE op = "events" ->
         Str(p.semesterProgramId) \o "_" \o Str(p.year) \o "_" \o Str(p.month)
    [] op \in {"subjects", "published"} -> Str(p.semesterProgramId)
    [] op = "groups" ->
         Str(p.courseId) \o "_" \o Str(p.semesterId) \o "_" \o Str(p.programId)
    [] op = "courses" -> Str(p.semesterId) \o "_" \o Str(p.programId)

CacheKey(op, p) ==
  CASE op = "events" ->
         "events_" \o Str(p.semesterProgramId) \o "_" \o Str(p.year)
           \o "_" \o Str(p.month)
    [] op = "subjects" -> "subjects_" \o Str(p.semesterProgramId)
    [] op = "published" -> "published_" \o Str(p.semesterProgramId)
    [] op = "groups" ->
         "groups_" \o Str(p.courseId) \o "_" \o Str(p.semesterId)
           \o "_" \o Str(p.programId)
    [] op = "courses" ->
         "courses_" \o Str(p.semesterId) \o "_" \o Str(p.programId)

\* an operation with its parameters; none
NoCall == [op |-> "", p |-> NoParams]

NoKeys == [a |-> "", b |-> ""]

IdleKeys ==
  /\ callA = NoCall
  /\ callB = NoCall
  /\ keysAB = NoKeys

EmptyCache == [k \in {} |-> [data |-> "undefined", timestamp |-> 0]]

Remove(c, key) == [k \in DOMAIN c \ {key} |-> c[k]]

\* an entry counted as fresh up to and including the timeout
FreshInclusive(entry) == now - entry.timestamp <= cacheTimeout

\* Date.now() - cached.timestamp < this.cacheTimeout
Fresh(entry) == now - entry.timestamp < cacheTimeout

\* getFromCache without the age test: any entry it finds is returned
getFromCacheAnyAge(key) ==
  IF key \in DOMAIN cache
    THEN [ret |-> cache[key].data, cache |-> cache]
  ELSE [ret |-> "undefined", cache |-> cache]

\* getFromCache(key): the value it returns and the cache it leaves
getFromCache(key) ==
  IF key \in DOMAIN cache /\ Fresh(cache[key])
    THEN [ret |-> cache[key].data, cache |-> cache]
  ELSE IF key \in DOMAIN cache
    THEN [ret |-> "undefined", cache |-> Remove(cache, key)]
  ELSE [ret |-> "undefined", cache |-> cache]

\* setCache that keeps the timestamp of the entry it overwrites
setCacheKeepStamp(c, key, data) ==
  [k \in DOMAIN c \cup {key} |->
     IF k = key
       THEN [data |-> data,
             timestamp |-> IF key \in DOMAIN c THEN c[key].timestamp ELSE 0]
     ELSE c[k]]

\* setCache(key, data) on cache c
setCache(c, key, data) ==
  [k \in DOMAIN c \cup {key} |->
     IF k = key THEN [data |-> data, timestamp |-> now] ELSE c[k]]

\* the truthiness test used for every operation, published included
HitIfTruthy(op, cached) == Truthy(cached)

\* the test each operation makes on what getFromCache returned:
\* `if (cached) return cached`, and `if (cached !== undefined)` for published
Hit(op, cached) ==
  IF op = "published" THEN cached # "undefined" ELSE Truthy(cached)

\* what an operation makes of a response body: the Error it throws ("" for
\* none) and the value it caches and returns
Digest(op, data) ==
  IF op = "published"
    THEN [err |-> "",
          value |-> IF data \notin {"null", "undefined"} THEN Boolean(data) ELSE "false"]
  ELSE IF data \in {"null", "undefined"}
    THEN [err |-> "Invalid response data", value |-> "undefined"]
  ELSE [err |-> "", value |-> IF IsArray(data) THEN data ELSE "[]"]

\* ------------------------------------------------------------ observation
\* What the most recent step did.  act: the step; p, key: the call's
\* parameters and cache key; looked: getFromCache was called; had, elapsed,
\* stored: the entry it found, its age and its data; got: what getFromCache
\* returned; ret: the value the operation returned to its caller; err: the
\* message of the Error it threw; posts0: posts before the step; inflight:
\* calls with the same key suspended before the step; body: the kind of
\* answer the transport gave; changed: the step changed the cache map;
\* keptYoung: the step left in the map every entry younger than cacheTimeout.
NoObs ==
  [act |-> "init", op |-> "", p |-> NoParams, key |-> "", looked |-> FALSE,
   had |-> FALSE, elapsed |-> 0, stored |-> "undefined", got |-> "undefined",
   ret |-> "undefined", err |-> "", posts0 |-> 0, inflight |-> 0,
   body |-> "none", changed |-> FALSE, keptYoung |-> TRUE]

\* what kind of answer the transport gave
BodyKind(o) ==
  IF o.kind # "body" THEN o.kind
  ELSE IF o.data \in {"null", "undefined"} THEN "nullish"
  ELSE IF IsArray(o.data) THEN "array" ELSE "nonarray"

\* the observation of a lookup of key by operation op with parameters p
Looked(op, p, key, got) ==
  [NoObs EXCEPT
     !.act = "call", !.op = op, !.p = p, !.key = key, !.looked = TRUE,
     !.had = (key \in DOMAIN cache),
     !.elapsed = IF key \in DOMAIN cache THEN now - cache[key].timestamp ELSE 0,
     !.stored = IF key \in DOMAIN cache THEN cache[key].data ELSE "undefined",
     !.got = got.ret, !.posts0 = posts,
     !.inflight = CopiesIn([op |-> op, key |-> key], pending),
     !.changed = (got.cache # cache)]

\* ---------------------------------------------- Live Data Client: actions
\* what no step of the Live Data Client touches
ClientFrame == <<today, discVars, dateVars, keyVars>>

\* the synchronous part of a public operation, up to `await this.client.post`
Call(op, p) ==
  LET err == Validate(op, p)
      key == CacheKey(op, p)
      got == getFromCache(key)
  IN /\ IF err # ""
          THEN /\ last' = [NoObs EXCEPT !.act = "call", !.op = op, !.p = p,
                             !.err = err, !.posts0 = posts]
               /\ UNCHANGED <<now, cacheTimeout, cache, pending, posts>>
        ELSE IF Hit(op, got.ret)
          THEN /\ cache' = got.cache
               /\ last' = [Looked(op, p, key, got) EXCEPT !.ret = got.ret]
               /\ UNCHANGED <<now, cacheTimeout, pending, posts>>
        ELSE /\ posts < MaxPosts
             /\ cache' = got.cache
             /\ pending' = pending (+) SetToBag({[op |-> op, key |-> key]})
             /\ posts' = posts + 1
             /\ last' = Looked(op, p, key, got)
             /\ UNCHANGED <<now, cacheTimeout>>
     /\ UNCHANGED ClientFrame

\* the rest of the operation, once the transport has answered call c with o
Respond(c, o) ==
  LET d == Digest(c.op, o.data)
      obs == [NoObs EXCEPT !.act = "respond", !.op = c.op, !.key = c.key,
                !.posts0 = posts, !.body = BodyKind(o)]
  IN /\ BagIn(c, pending)
     /\ pending' = pending (-) SetToBag({c})
     /\ IF o.kind = "axios"
          THEN /\ last' = [obs EXCEPT !.err = "API request failed"]
               /\ UNCHANGED cache
        ELSE IF o.kind = "other"
          THEN /\ last' = [obs EXCEPT !.err = "thrown by transport"]
               /\ UNCHANGED cache
        ELSE IF d.err # ""
          THEN /\ last' = [obs EXCEPT !.err = d.err]
               /\ UNCHANGED cache
        ELSE /\ cache' = setCache(cache, c.key, d.value)
             /\ last' = [obs EXCEPT !.ret = d.value,
                           !.changed = (setCache(cache, c.key, d.value) # cache)]
     /\ UNCHANGED <<now, cacheTimeout, posts>>
     /\ UNCHANGED ClientFrame

clearCache ==
  /\ cache' = EmptyCache
  /\ last' = [NoObs EXCEPT !.act = "clearCache", !.posts0 = posts,
                !.changed = (cache # EmptyCache)]
  /\ UNCHANGED <<now, cacheTimeout, pending, posts>>
  /\ UNCHANGED ClientFrame

Expired(c) == {k \in DOMAIN c : now - c[k].timestamp > cacheTimeout}

clearExpiredCache ==
  /\ cache' = [k \in DOMAIN cache \ Expired(cache) |-> cache[k]]
  /\ last' = [NoObs EXCEPT !.act = "clearExpiredCache", !.posts0 = posts,
                !.changed = (Expired(cache) # {}),
                !.keptYoung = \A k \in Expired(cache) :
                                 ~(now - cache[k].timestamp < cacheTimeout)]
  /\ UNCHANGED <<now, cacheTimeout, pending, posts>>
  /\ UNCHANGED ClientFrame

\* Date.now() moves on.  With nothing cached the client reads the clock only
\* to stamp the entry it writes, and entries are compared with the clock by
\* their age alone, so the clock is moved only while an entry is cached.
Tick ==
  /\ now < MaxTime
  /\ cache # EmptyCache
  /\ now' = now + 1
  /\ last' = [NoObs EXCEPT !.act = "tick", !.posts0 = posts]
  /\ UNCHANGED <<cacheTimeout, cache, pending, posts>>
  /\ UNCHANGED ClientFrame

\* a client just constructed, with the cacheTimeout it was configured with
InitClient ==
  /\ cacheTimeout \in TTLs
  /\ cache = EmptyCache
  /\ pending = EmptyBag
  /\ posts = 0
  /\ last = NoObs

Init ==
  /\ now = 0
  /\ today = Today0
  /\ InitClient
  /\ IdleService
  /\ IdleResolver
  /\ IdleKeys

Next ==
  \/ \E op \in Ops : \E p \in ParamsOf(op) : Call(op, p)
  \/ \E c \in BagToSet(pending) : \E o \in Outcomes : Respond(c, o)
  \/ clearCache
  \/ clearExpiredCache
  \/ Tick

Spec == Init /\ [][Next]_vars

\* the same client, called with every parameter object of WideParamsOf, and
\* issuing at most MaxPostsWide requests
NextWide ==
  \/ \E op \in Ops : \E p \in WideParamsOf(op) :
       Call(op, p) /\ posts' <= MaxPostsWide
  \/ \E c \in BagToSet(pending) : \E o \in Outcomes : Respond(c, o)
  \/ clearCache
  \/ clearExpiredCache
  \/ Tick

SpecWide == Init /\ [][NextWide]_vars

\* a client that is constructed and never called
IdleClient ==
  /\ cacheTimeout = MaxTTL
  /\ cache = EmptyCache
  /\ pending = EmptyBag
  /\ posts = 0
  /\ last = NoObs

\* ------------------------------------------- Discovery Service: inputs
AutumnLabel == [code |-> "24/25-R", years |-> Chars2024, word |-> "rudens"]

SpringLabel == [code |-> "24/25-P", years |-> Chars2024, word |-> "pavasara"]

SummerLabel == [code |-> "24/25-V", years |-> Chars2024, word |-> "vasaras"]

\* the semester lists a page may hold: none, one that is not selected, and
\* three of which the second and the third are flagged selected
SemesterLists ==
  {<<>>,
   <<[id |-> 1, name |-> AutumnLabel, isSelected |-> FALSE]>>,
   <<[id |-> 1, name |-> AutumnLabel, isSelected |-> FALSE],
     [id |-> 2, name |-> SpringLabel, isSelected |-> TRUE],
     [id |-> 3, name |-> SummerLabel, isSelected |-> TRUE]>>}

\* the metadata of a page: the dates of the selected semester, if there is one
MetadataOf(semesters) ==
  IF \E i \in 1..Len(semesters) : semesters[i].isSelected
    THEN [startDate |-> Day(2025, 2, 3), endDate |-> Day(2025, 6, 27)]
    ELSE NoMetadata

\* a program's full name, as the display name and the qualifier after it
ProgramRecord ==
  [id |-> 7, name |-> [short |-> "Datorsistemas", qualifier |-> "(RDBD0)"],
   code |-> "RDBD0", tokens |-> <<"datorsistemas">>]

FacultyLists ==
  {<<>>,
   <<[facultyName |-> "DITF", facultyCode |-> "33000", programs |-> <<ProgramRecord>>]>>}

\* what axios.get and the parser may do: throw an AxiosError, throw another
\* Error (the transport), throw an Error (the parser), throw a value that is
\* not an Error, or give parsed records
DOutcomes(kind) ==
  {[kind |-> k, semesters |-> <<>>, metadata |-> NoMetadata, faculties |-> <<>>] :
     k \in {"axios", "error", "parse", "value"}}
  \cup
  IF kind = "periods"
    THEN {[kind |-> "ok", semesters |-> l, metadata |-> MetadataOf(l), faculties |-> <<>>] :
            l \in SemesterLists}
    ELSE {[kind |-> "ok", semesters |-> <<>>, metadata |-> NoMetadata, faculties |-> f] :
            f \in FacultyLists}

\* ------------------------------------------ Discovery Service: helpers
\* the label normalizer (utils.js)
parseProgramName(name) == name.short

\* semesters.map((s) => this.transformToStudyPeriod(s, metadata))
MapPeriods(semesters, meta) ==
  [i \in 1..Len(semesters) |-> transformToStudyPeriod(semesters[i], meta)]

ProgramsOf(faculty) ==
  [i \in 1..Len(faculty.programs) |->
     [id |-> faculty.programs[i].id,
      name |-> parseProgramName(faculty.programs[i].name),
      code |-> faculty.programs[i].code,
      fullName |-> faculty.programs[i].name,
      faculty |-> [name |-> faculty.facultyName, code |-> faculty.facultyCode],
      tokens |-> faculty.programs[i].tokens]]

RECURSIVE transformFacultiesToPrograms(_)
transformFacultiesToPrograms(faculties) ==
  IF faculties = <<>> THEN <<>>
  ELSE ProgramsOf(Head(faculties)) \o transformFacultiesToPrograms(Tail(faculties))

\* an expiry test that also expires an entry whose age equals the timeout
StaleFromTimeout(entry) == now - entry.timestamp >= discTimeout

\* Date.now() - entry.timestamp > this.cacheTimeout
Stale(entry) == now - entry.timestamp > discTimeout

\* getCachedPeriods(): whether it returns the list, the list, and the slot
\* it leaves
getCachedPeriods ==
  IF ~periodsCache.set
    THEN [hit |-> FALSE, data |-> <<>>, periods |-> periodsCache]
  ELSE IF Stale(periodsCache)
    THEN [hit |-> FALSE, data |-> <<>>, periods |-> NoEntry]
  ELSE [hit |-> TRUE, data |-> periodsCache.data, periods |-> periodsCache]

\* getCachedPrograms(periodId): the same for the programs map
getCachedPrograms(periodId) ==
  IF periodId \notin DOMAIN programsCache
    THEN [hit |-> FALSE, data |-> <<>>, programs |-> programsCache]
  ELSE IF Stale(programsCache[periodId])
    THEN [hit |-> FALSE, data |-> <<>>,
          programs |-> [i \in DOMAIN programsCache \ {periodId} |-> programsCache[i]]]
  ELSE [hit |-> TRUE, data |-> programsCache[periodId].data, programs |-> programsCache]

\* a write that leaves an entry already in the map as it is
SetProgramsIfAbsent(periodId, data) ==
  [i \in DOMAIN programsCache \cup {periodId} |->
     IF i \in DOMAIN programsCache THEN programsCache[i] ELSE Entry(data)]

\* this.programsCache.set(periodId, {data, timestamp: Date.now()})
SetPrograms(periodId, data) ==
  [i \in DOMAIN programsCache \cup {periodId} |->
     IF i = periodId THEN Entry(data) ELSE programsCache[i]]

\* periods.find((p) => p.isSelected), as the periods found: none or one
RECURSIVE Find(_)
Find(periods) ==
  IF periods = <<>> THEN <<>>
  ELSE IF Head(periods).isSelected THEN <<Head(periods)>>
  ELSE Find(Tail(periods))

\* a choice of the current period that takes the first entry of the list
CurrentIsFirst(periods) ==
  IF periods # <<>> THEN Some(periods[1]) ELSE Null

\* periods.find((p) => p.isSelected) ?? periods[0] ?? null
CurrentOf(periods) ==
  IF Find(periods) # <<>> THEN Some(Find(periods)[1])
  ELSE IF periods # <<>> THEN Some(periods[1])
  ELSE Null

\* the number of copies in the bag of the records of the set rs
RECURSIVE Copies(_, _)
Copies(rs, bag) ==
  IF rs = {} THEN 0
  ELSE LET r == CHOOSE x \in rs : TRUE
       IN CopiesIn(r, bag) + Copies(rs \ {r}, bag)

\* a suspended call that is no longer the only activity since it was made:
\* what the caches were when it was made is of no more use
Joined(r) ==
  [r EXCEPT !.alone = FALSE, !.periods0 = NoEntry, !.programs0 = NoPrograms]

\* the suspended calls, each marked as no longer the only activity since it
\* was made
NotAlone(bag) ==
  [x \in {Joined(r) : r \in BagToSet(bag)} |->
     Copies({r \in BagToSet(bag) : Joined(r) = x}, bag)]

\* the suspended calls, each marked as suspended across a clearCache()
AcrossClear(bag) ==
  [x \in {[r EXCEPT !.acrossClear = TRUE] : r \in BagToSet(bag)} |->
     Copies({r \in BagToSet(bag) : [r EXCEPT !.acrossClear = TRUE] = x}, bag)]

\* the number of suspended calls for the slot of a call
InFlight(kind, periodId) ==
  Copies({r \in BagToSet(fetching) : r.kind = kind /\ r.periodId = periodId},
         fetching)

\* the caches as they were when call c was made, with c's own slot emptied
ExceptOwnSlot(c) ==
  IF c.kind = "periods" THEN <<NoEntry, c.programs0>>
  ELSE <<c.periods0,
         [i \in DOMAIN c.programs0 \ {c.periodId} |-> c.programs0[i]]>>

\* ------------------------------------------ Discovery Service: actions
\* what no step of the Discovery Service touches
ServiceFrame == <<today, apiVars, dateVars, keyVars>>

\* discoverPeriods() / discoverPrograms(periodId) up to
\* `await this.fetchMainPage(...)`; periodId is 0 for discoverPeriods, and
\* current tells that the call is the one discoverCurrentPeriod() makes
Begin(kind, periodId, current) ==
  LET slot == IF kind = "periods" THEN periodsCache
              ELSE IF periodId \in DOMAIN programsCache THEN programsCache[periodId]
              ELSE NoEntry
      got == IF kind = "periods" THEN getCachedPeriods ELSE getCachedPrograms(periodId)
      periods1 == IF kind = "periods" THEN got.periods ELSE periodsCache
      programs1 == IF kind = "periods" THEN programsCache ELSE got.programs
      obs == [NoDObs EXCEPT
                !.act = "call", !.kind = kind, !.periodId = periodId,
                !.had = slot.set,
                !.elapsed = IF slot.set THEN now - slot.timestamp ELSE 0,
                !.current = current, !.gets0 = gets,
                !.inflight = InFlight(kind, periodId),
                !.next = (periodId \in uncalled),
                !.acrossClear = (got.hit /\ slot.acrossClear),
                !.evicted = (<<periods1, programs1>> # <<periodsCache, programsCache>>)]
  IN /\ periodsCache' = periods1
     /\ programsCache' = programs1
     /\ IF got.hit
          THEN /\ dlast' = [obs EXCEPT
                                !.returned = TRUE, !.ret = got.data,
                                !.one = IF current THEN CurrentOf(got.data) ELSE Null]
               /\ UNCHANGED <<fetching, gets>>
          ELSE /\ gets < MaxGets
               /\ gets' = gets + 1
               /\ fetching' =
                    NotAlone(fetching) (+)
                      SetToBag({[kind |-> kind, periodId |-> periodId,
                                 current |-> current, acrossClear |-> FALSE,
                                 periods0 |-> IF fetching = EmptyBag THEN periodsCache
                                              ELSE NoEntry,
                                 programs0 |-> IF fetching = EmptyBag THEN programsCache
                                               ELSE NoPrograms,
                                 evicted |-> obs.evicted,
                                 alone |-> (fetching = EmptyBag)]})
               /\ dlast' = obs
     /\ uncalled' = uncalled \ {periodId}
     /\ UNCHANGED <<now, discTimeout>>
     /\ UNCHANGED ServiceFrame

Discover(kind, periodId) == Begin(kind, periodId, FALSE)

\* discoverCurrentPeriod() up to the fetch of its discoverPeriods() call
discoverCurrentPeriod == Begin("periods", 0, TRUE)

\* the rest of the call c, once fetchMainPage and the parser have done o
DiscoverRespond(c, o) ==
  LET obs == [NoDObs EXCEPT
                !.act = "respond", !.kind = c.kind, !.periodId = c.periodId,
                !.current = c.current, !.gets0 = gets,
                !.inflight = InFlight(c.kind, c.periodId) - 1,
                !.evicted = c.evicted, !.alone = c.alone]
      failed == [obs EXCEPT
                   !.err = IF c.kind = "periods" THEN "Failed to fetch periods"
                           ELSE "Failed to fetch programs",
                   !.raised = CASE o.kind = "axios" -> "AxiosError"
                                [] o.kind = "error" -> "error thrown by transport"
                                [] o.kind = "parse" -> "error thrown by parser"
                                [] OTHER -> "value thrown",
                   !.cause = CASE o.kind = "axios" -> "DiscoveryError: HTTP request failed"
                               [] o.kind = "error" -> "error thrown by transport"
                               [] o.kind = "parse" -> "error thrown by parser"
                               [] OTHER -> "undefined",
                   !.untouched = (c.alone /\ <<periodsCache, programsCache>>
                                               = <<c.periods0, c.programs0>>),
                   !.ownSlotOnly = (c.alone /\ <<periodsCache, programsCache>>
                                                 = ExceptOwnSlot(c))]
      periods == MapPeriods(o.semesters, o.metadata)
      programs == transformFacultiesToPrograms(o.faculties)
  IN /\ BagIn(c, fetching)
     /\ fetching' = fetching (-) SetToBag({c})
     /\ IF o.kind # "ok"
          THEN /\ dlast' = failed
               /\ UNCHANGED <<periodsCache, programsCache>>
        ELSE IF c.kind = "periods"
          THEN /\ periodsCache' = [Entry(periods) EXCEPT !.acrossClear = c.acrossClear]
               /\ dlast' = [obs EXCEPT
                                !.returned = TRUE, !.ret = periods, !.wrote = TRUE,
                                !.over = periodsCache.set,
                                !.one = IF c.current THEN CurrentOf(periods) ELSE Null]
               /\ UNCHANGED programsCache
        ELSE /\ programsCache' =
                  [SetPrograms(c.periodId, programs) EXCEPT
                     ![c.periodId].acrossClear = c.acrossClear]
             /\ dlast' = [obs EXCEPT
                              !.returned = TRUE, !.ret = programs, !.wrote = TRUE,
                              !.over = (c.periodId \in DOMAIN programsCache)]
             /\ UNCHANGED periodsCache
     /\ UNCHANGED <<now, discTimeout, gets, uncalled>>
     /\ UNCHANGED ServiceFrame

\* DiscoveryService.clearCache()
ServiceClearCache ==
  /\ periodsCache' = NoEntry
  /\ programsCache' = NoPrograms
  /\ fetching' = AcrossClear(NotAlone(fetching))
  /\ uncalled' = Slots
  /\ dlast' = [NoDObs EXCEPT !.act = "clearCache", !.gets0 = gets]
  /\ UNCHANGED <<now, discTimeout, gets>>
  /\ UNCHANGED ServiceFrame

\* Date.now() moves on.  With nothing cached the service reads the clock
\* only to stamp the entry it writes, and entries are compared with the
\* clock by their age alone, so the clock is moved only while an entry is
\* cached.
ServiceTick ==
  /\ now < MaxTime
  /\ periodsCache.set \/ programsCache # NoPrograms
  /\ now' = now + 1
  /\ dlast' = [NoDObs EXCEPT !.act = "tick", !.gets0 = gets]
  /\ UNCHANGED <<discTimeout, periodsCache, programsCache, fetching, gets, uncalled>>
  /\ UNCHANGED ServiceFrame

\* a service just constructed, with the cacheTimeout it was configured with
InitService ==
  /\ discTimeout \in TTLs
  /\ periodsCache = NoEntry
  /\ programsCache = NoPrograms
  /\ fetching = EmptyBag
  /\ gets = 0
  /\ uncalled = {}
  /\ dlast = NoDObs

InitDiscovery ==
  /\ now = 0
  /\ today = Today0
  /\ IdleClient
  /\ InitService
  /\ IdleResolver
  /\ IdleKeys

NextDiscovery ==
  \/ Discover("periods", 0)
  \/ \E periodId \in PeriodIds : Discover("programs", periodId)
  \/ discoverCurrentPeriod
  \/ \E c \in BagToSet(fetching) : \E o \in DOutcomes(c.kind) : DiscoverRespond(c, o)
  \/ ServiceClearCache
  \/ ServiceTick

SpecDiscovery == InitDiscovery /\ [][NextDiscovery]_vars

\* ------------------------------------------------- cache keys: steps
\* the numbers the keys are explored with
KeyIds == {N(0), N(1), N(2), N(12)}

KeyYears == {N(1), N(2000), N(2012)}

KeyMonths == {N(1), N(12)}

\* parameter objects of operation op, with the parameters of no other
KeyParamsOf(op) ==
  CASE op = "events" ->
         {[NoParams EXCEPT !.semesterProgramId = i, !.year = y, !.month = m] :
            i \in KeyIds, y \in KeyYears, m \in KeyMonths}
    [] op \in {"subjects", "published"} ->
         {[NoParams EXCEPT !.semesterProgramId = i] : i \in KeyIds}
    [] op = "groups" ->
         {[NoParams EXCEPT !.courseId = c, !.semesterId = i, !.programId = j] :
            c \in KeyIds, i \in KeyIds, j \in KeyIds}
    [] op = "courses" ->
         {[NoParams EXCEPT !.semesterId = i, !.programId = j] :
            i \in KeyIds, j \in KeyIds}

\* the calls that pass validation and reach the line that builds cacheKey
KeyedCalls ==
  {c \in UNION {{[op |-> op, p |-> p] : p \in KeyParamsOf(op)} : op \in Ops} :
     Validate(c.op, c.p) = ""}

\* const cacheKey = `...` of the two calls
BuildKeys ==
  /\ keysAB' = [a |-> CacheKey(callA.op, callA.p), b |-> CacheKey(callB.op, callB.p)]
  /\ UNCHANGED <<now, today, apiVars, discVars, dateVars, callA, callB>>

InitKeys ==
  /\ now = 0
  /\ today = Today0
  /\ IdleClient
  /\ IdleService
  /\ IdleResolver
  /\ callA \in KeyedCalls
  /\ callB \in KeyedCalls
  /\ keysAB = NoKeys

NextKeys == BuildKeys

SpecKeys == InitKeys /\ [][NextKeys]_vars

\* ------------------------------------------- Date Range Resolver: steps
\* transformToStudyPeriod applied to the semester and metadata given
Resolve ==
  /\ resolved' = transformToStudyPeriod(semester, metadata)
  /\ UNCHANGED <<now, today, apiVars, discVars, semester, metadata, keyVars>>

InitDates ==
  /\ now = 0
  /\ today \in Days
  /\ IdleClient
  /\ IdleService
  /\ semester \in Semesters
  /\ metadata \in Metadatas
  /\ resolved = NoPeriod
  /\ IdleKeys

NextDates == Resolve

SpecDates == InitDates /\ [][NextDates]_vars

\* ------------------------------------------------------------------ claims
\* the step was a call that passed validation and looked its key up
Lookup == last.act = "call" /\ last.looked

\* the step was a lookup that found an entry younger than the timeout
FoundFresh == Lookup /\ last.had /\ last.elapsed < cacheTimeout

\* the step was a response that the operation turned into a returned value
Returned == last.act = "respond" /\ last.err = ""

\* C1: a lookup that finds an entry returns the stored value if and only if
\* the entry's age is below cacheTimeout; at an age of cacheTimeout or more it
\* returns undefined and the entry is gone from the map after the lookup.
C1_LookupServesIffYoungerThanTTL ==
  (Lookup /\ last.had) =>
     /\ last.stored # "undefined"
     /\ (last.elapsed < cacheTimeout) <=> (last.got = last.stored)
     /\ last.elapsed < cacheTimeout =>
          /\ last.key \in DOMAIN cache
          /\ cache[last.key] = [data |-> last.stored, timestamp |-> now - last.elapsed]
     /\ last.elapsed >= cacheTimeout =>
          /\ last.got = "undefined"
          /\ last.key \notin DOMAIN cache

C1_Witness ==
  /\ Lookup /\ last.had
  /\ cacheTimeout > 0
  /\ last.elapsed = cacheTimeout
  /\ last.key \notin DOMAIN cache

\* C2: a call that misses issues exactly one POST, the value its response
\* yields is stored under the call's key with the current time, and a later
\* call with the same key while that entry is younger than cacheTimeout issues
\* no POST and returns the stored value.
C2_SecondCallServedFromCache ==
  /\ (Lookup /\ ~(last.had /\ last.elapsed < cacheTimeout)) =>
        posts = last.posts0 + 1
  /\ Returned =>
        /\ last.key \in DOMAIN cache
        /\ cache[last.key] = [data |-> last.ret, timestamp |-> now]
        /\ posts = last.posts0
  /\ FoundFresh =>
        /\ posts = last.posts0
        /\ last.ret = last.stored
        /\ ~last.changed

C2_Witness ==
  /\ FoundFresh
  /\ last.elapsed > 0
  /\ posts = 1
  /\ last.ret = "[e1]"

\* C3 as stated: a call made while a call with the same key is suspended at
\* its POST issues no POST of its own.
C3_NoSecondRequestInFlight ==
  (Lookup /\ last.inflight > 0) => posts = last.posts0

\* C3, amended: suspended calls are not tracked; a call made while a call with
\* the same key is suspended issues its own POST exactly when the cache holds
\* no entry for the key that is younger than cacheTimeout.
C3_InFlightCallsAreNotCoalesced ==
  (Lookup /\ last.inflight > 0) =>
     /\ (posts = last.posts0 + 1) <=> ~(last.had /\ last.elapsed < cacheTimeout)
     /\ (posts = last.posts0) <=> (last.had /\ last.elapsed < cacheTimeout)
     /\ posts = last.posts0 + 1 =>
          CopiesIn([op |-> last.op, key |-> last.key], pending) = last.inflight + 1

C3_Witness ==
  /\ Lookup
  /\ last.inflight = 1
  /\ posts = last.posts0 + 1
  /\ CopiesIn([op |-> last.op, key |-> last.key], pending) = 2

\* the names of the parameters of operation op that are missing, zero or
\* negative, or (year, month) outside 2000..3000 and 1..12
BadId(x) == ~x.def \/ x.n <= 0

Offending(op, p) ==
  CASE op = "events" ->
         {n \in {"semesterProgramId"} : BadId(p.semesterProgramId)}
           \cup {n \in {"year"} : ~p.year.def \/ p.year.n \notin 2000..3000}
           \cup {n \in {"month"} : ~p.month.def \/ p.month.n \notin 1..12}
    [] op \in {"subjects", "published"} ->
         {n \in {"semesterProgramId"} : BadId(p.semesterProgramId)}
    [] op = "groups" ->
         {n \in {"courseId"} : BadId(p.courseId)}
           \cup {n \in {"semesterId"} : BadId(p.semesterId)}
           \cup {n \in {"programId"} : BadId(p.programId)}
    [] op = "courses" ->
         {n \in {"semesterId"} : BadId(p.semesterId)}
           \cup {n \in {"programId"} : BadId(p.programId)}

\* C4: a call with an offending parameter throws an error naming one of the
\* offending parameters, without a cache lookup, a cache change or a POST.
C4_ValidationFirst ==
  (last.act = "call" /\ Offending(last.op, last.p) # {}) =>
     /\ last.err \in {"Invalid " \o n : n \in Offending(last.op, last.p)}
     /\ ~last.looked
     /\ ~last.changed
     /\ posts = last.posts0
     /\ last.ret = "undefined"

C4_Witness ==
  /\ last.act = "call"
  /\ last.op = "events"
  /\ last.p.month = N(13)
  /\ last.err = "Invalid month"
  /\ DOMAIN cache # {}

\* C5: a call whose fetch fails (the transport throws, or the response body is
\* null or undefined) does not create or overwrite a cache entry.
C5_FailedFetchWritesNothing ==
  (last.act = "respond" /\ last.body \in {"axios", "other", "nullish"}) =>
     ~last.changed

\* C7: a call of checkSemesterProgramPublished that finds a stored false
\* younger than cacheTimeout returns false and issues no POST.
C7_CachedFalseIsAHit ==
  (FoundFresh /\ last.op = "published" /\ last.stored = "false") =>
     /\ last.ret = "false"
     /\ posts = last.posts0
     /\ CopiesIn([op |-> last.op, key |-> last.key], pending) = last.inflight

C7_Witness ==
  /\ FoundFresh
  /\ last.op = "published"
  /\ last.stored = "false"
  /\ last.ret = "false"

\* C8: a null or undefined response body makes the operation throw the
\* invalid-response error, and nothing is stored under the call's key.
C8_NullBodyIsRejected ==
  (last.act = "respond" /\ last.body = "nullish") =>
     /\ last.err = "Invalid response data"
     /\ last.ret = "undefined"
     /\ ~last.changed

\* C9: a list operation turns a present, non-array body into the empty
\* array, stores it, and a later call that finds a stored empty array younger
\* than cacheTimeout returns it without a POST.
C9_EmptyListIsCachedAndServed ==
  /\ (last.act = "respond" /\ last.op \in ListOps /\ last.body = "nonarray") =>
        /\ last.err = ""
        /\ last.ret = "[]"
        /\ last.key \in DOMAIN cache
        /\ cache[last.key] = [data |-> "[]", timestamp |-> now]
  /\ (FoundFresh /\ last.op \in ListOps /\ last.stored = "[]") =>
        /\ last.ret = "[]"
        /\ posts = last.posts0

C9_Witness ==
  /\ FoundFresh
  /\ last.op \in ListOps
  /\ last.stored = "[]"
  /\ last.ret = "[]"
  /\ posts = last.posts0

\* the resolver has produced a period for the semester given
Resolved == resolved # NoPeriod

\* the period is flagged selected and both metadata dates are present
Authoritative ==
  /\ semester.isSelected
  /\ metadata.startDate # NoDate
  /\ metadata.endDate # NoDate

\* C10: the period's dates are the metadata dates when the period is selected
\* and both metadata dates are present, whatever its season and academic
\* year; in every other case they are the defaults calculated from its
\* season and academic year, which the metadata dates play no part in.
C10_MetadataDatesOnlyForSelected ==
  Resolved =>
     /\ Authoritative =>
          /\ resolved.startDate = metadata.startDate
          /\ resolved.endDate = metadata.endDate
     /\ ~Authoritative =>
          <<resolved.startDate, resolved.endDate>>
            = calculatedDefaults(parseSeason(semester.name),
                                 parseAcademicYear(semester.name))
     /\ resolved.isSelected = semester.isSelected

C10_Witness ==
  /\ Resolved
  /\ Authoritative
  /\ resolved.season = "spring"
  /\ resolved.academicYear = <<>>
  /\ resolved.startDate = Day(2024, 9, 2)
  /\ resolved.endDate = Day(2025, 1, 31)

\* the step was the failure of a discovery call in its fetch or parse step
DiscoveryFailed == dlast.act = "respond" /\ dlast.err # ""

\* C6 as stated: after a discovery call has failed, with nothing else done
\* to the service since the call was made, the periods slot and the programs
\* map are what they were just before the call was made.
C6_FailedCallLeavesCacheAsInvoked ==
  (DiscoveryFailed /\ dlast.alone) => dlast.untouched

\* C6, amended: a failed discovery call writes nothing; the periods slot and
\* the programs map are afterwards what they were just before the call was
\* made, except that the call's own slot is empty if its lookup found an
\* entry there older than cacheTimeout.
C6_FailedCallOnlyEvictsItsStaleSlot ==
  /\ (dlast.act = "call" /\ dlast.evicted) =>
        /\ dlast.had
        /\ dlast.elapsed > discTimeout
        /\ ~dlast.returned
  /\ (dlast.act = "call" /\ dlast.had /\ dlast.elapsed > discTimeout) =>
        dlast.evicted
  /\ DiscoveryFailed =>
        /\ ~dlast.wrote
        /\ ~dlast.returned
        /\ dlast.alone =>
             IF dlast.evicted THEN dlast.ownSlotOnly /\ ~dlast.untouched
             ELSE dlast.untouched

C6_Witness ==
  /\ DiscoveryFailed
  /\ dlast.alone
  /\ dlast.evicted
  /\ dlast.ownSlotOnly
  /\ ~dlast.untouched
  /\ dlast.kind = "programs"
  /\ dlast.periodId \notin DOMAIN programsCache

\* the first and second year of an academic-year string, or this year and the
\* next when it is not of the form YYYY/YYYY
FirstYear(ay) == IF YearMatch(ay) THEN ParseInt4(ay, 1) ELSE today.y

SecondYear(ay) == IF YearMatch(ay) THEN ParseInt4(ay, 6) ELSE today.y + 1

\* the default date range of a season and an academic-year string
DefaultRange(season, ay) ==
  CASE season = "autumn" -> <<Day(FirstYear(ay), 9, 1), Day(SecondYear(ay), 1, 31)>>
    [] season = "spring" -> <<Day(SecondYear(ay), 2, 1), Day(SecondYear(ay), 6, 30)>>
    [] season = "summer" -> <<Day(SecondYear(ay), 7, 1), Day(SecondYear(ay), 8, 31)>>
    [] OTHER -> <<today, today>>

\* C11: when the metadata dates are not used, the period's dates are the
\* default range of its season and of the two years of its academic-year
\* string (this year and the next when the string is not YYYY/YYYY):
\* autumn startYear-09-01 to endYear-01-31, spring endYear-02-01 to
\* endYear-06-30, summer endYear-07-01 to endYear-08-31, and today twice for
\* an unknown season.
C11_DefaultRangeOfSeasonAndYears ==
  (Resolved /\ ~Authoritative) =>
     <<resolved.startDate, resolved.endDate>>
       = DefaultRange(resolved.season, resolved.academicYear)

\* date a is not after date b
DateLE(a, b) ==
  \/ a.y < b.y
  \/ a.y = b.y /\ a.m < b.m
  \/ a.y = b.y /\ a.m = b.m /\ a.d <= b.d

\* C12: every period produced has a start date that is not after its end
\* date.
C12_StartNotAfterEnd ==
  Resolved => DateLE(resolved.startDate, resolved.endDate)

\* the position of the first period of the list that is flagged selected, or
\* 0 when none is
FirstSelected(periods) ==
  LET flagged == {i \in 1..Len(periods) : periods[i].isSelected}
  IN IF flagged = {} THEN 0 ELSE CHOOSE i \in flagged : \A j \in flagged : i <= j

\* C13: discoverCurrentPeriod() returns the first period flagged selected of
\* the list its discoverPeriods() call returned, else the first entry of the
\* list, else null, and does not fail when the list is empty; it issues at
\* most one request, none when the periods slot is fresh, and none after its
\* discoverPeriods() call has been answered.
C13_CurrentIsSelectedElseFirstElseNull ==
  dlast.current =>
     /\ dlast.returned =>
          /\ dlast.err = ""
          /\ dlast.one =
               IF FirstSelected(dlast.ret) # 0
                 THEN Some(dlast.ret[FirstSelected(dlast.ret)])
               ELSE IF Len(dlast.ret) > 0 THEN Some(dlast.ret[1])
               ELSE Null
     /\ dlast.act = "call" =>
          /\ gets \in {dlast.gets0, dlast.gets0 + 1}
          /\ (dlast.had /\ dlast.elapsed < discTimeout) =>
                dlast.returned /\ gets = dlast.gets0
     /\ dlast.act = "respond" =>
          /\ gets = dlast.gets0
          /\ dlast.returned \/ dlast.err = "Failed to fetch periods"

C13_Witness ==
  /\ dlast.current
  /\ dlast.act = "call"
  /\ dlast.returned
  /\ gets = dlast.gets0
  /\ Len(dlast.ret) = 3
  /\ ~dlast.ret[1].isSelected
  /\ dlast.ret[3].isSelected
  /\ dlast.one = Some(dlast.ret[2])

\* the step was a discovery call: its lookup and, on a miss, its request
Called == dlast.act = "call"

\* the entry of the slot of the most recent step, or NoEntry
SlotOfLast ==
  IF dlast.kind = "periods" THEN periodsCache
  ELSE IF dlast.periodId \in DOMAIN programsCache THEN programsCache[dlast.periodId]
  ELSE NoEntry

\* C14: a discovery call is served the cached list exactly when its slot
\* holds an entry younger than cacheTimeout; a call that finds an entry whose
\* age is cacheTimeout or more evicts it and issues a request.
C14_ServedOnlyWhileYoungerThanTimeout ==
  Called =>
     /\ dlast.returned <=> (dlast.had /\ dlast.elapsed < discTimeout)
     /\ (dlast.had /\ dlast.elapsed >= discTimeout) =>
          /\ dlast.evicted
          /\ gets = dlast.gets0 + 1

\* C15: clearCache() leaves the periods slot and the programs map empty, and
\* the first call for a slot after it issues a request and is not served
\* from the cache.
C15_NextCallAfterClearFetches ==
  /\ dlast.act = "clearCache" =>
        /\ periodsCache = NoEntry
        /\ programsCache = NoPrograms
  /\ (Called /\ dlast.next) =>
        /\ ~dlast.returned
        /\ gets = dlast.gets0 + 1

\* C16: the DiscoveryError of a failed discovery call has as its cause what
\* the transport or the parser threw.
C16_FailureCarriesOriginalCause ==
  DiscoveryFailed =>
     /\ dlast.err \in {"Failed to fetch periods", "Failed to fetch programs"}
     /\ dlast.cause = dlast.raised

\* C17: suspended calls are not tracked: a call that finds its slot empty,
\* or evicts the entry it finds, issues a request of its own however many
\* calls for the slot are suspended, and when a call is answered with
\* success the slot holds the list of that call, written at that time,
\* whatever it held before.
C17_ConcurrentMissesEachFetchLastWriteStays ==
  /\ (Called /\ ~dlast.returned) =>
        /\ ~dlast.had \/ dlast.elapsed > discTimeout
        /\ gets = dlast.gets0 + 1
        /\ InFlight(dlast.kind, dlast.periodId) = dlast.inflight + 1
        /\ ~SlotOfLast.set
  /\ (Called /\ dlast.inflight > 0 /\ (~dlast.had \/ dlast.elapsed > discTimeout)) =>
        /\ ~dlast.returned
        /\ gets = dlast.gets0 + 1
  /\ (dlast.act = "respond" /\ dlast.returned) =>
        /\ dlast.wrote
        /\ SlotOfLast.set
        /\ SlotOfLast.data = dlast.ret
        /\ SlotOfLast.timestamp = now
        /\ InFlight(dlast.kind, dlast.periodId) = dlast.inflight

C17_Witness ==
  /\ dlast.act = "respond"
  /\ dlast.returned
  /\ dlast.over
  /\ ~dlast.alone
  /\ dlast.inflight = 0
  /\ dlast.kind = "programs"
  /\ gets = dlast.gets0
  /\ SlotOfLast.data = dlast.ret
  /\ dlast.ret # <<>>

\* C20: no discovery call is served a list that came from a request issued
\* before a clearCache() and answered after it.
C20_ClearNotUndoneByFetchInFlight ==
  (Called /\ dlast.returned) => ~dlast.acrossClear

\* the keys of the two calls have been built
Keyed == keysAB # NoKeys

\* C18: two calls that pass validation have the same cache key exactly when
\* they are the same operation with the same parameter values.
C18_KeysAreInjective ==
  Keyed => ((keysAB.a = keysAB.b) <=> (callA = callB))

C18_Witness ==
  /\ Keyed
  /\ callA.op = "groups"
  /\ callB.op = "groups"
  /\ callA.p.courseId = N(1)
  /\ callA.p.semesterId = N(12)
  /\ callB.p.courseId = N(12)
  /\ callB.p.semesterId = N(1)
  /\ callA.p.programId = callB.p.programId
  /\ keysAB.a # keysAB.b

\* C19: right after clearExpiredCache() the map holds the entries younger
\* than cacheTimeout, which a lookup would serve, and no other: it has
\* removed every entry whose age is cacheTimeout or more and kept the rest.
C19_ClearExpiredAgreesWithLookup ==
  last.act = "clearExpiredCache" =>
     /\ \A k \in DOMAIN cache : now - cache[k].timestamp < cacheTimeout
     /\ last.keptYoung

====
